---- MODULE Spec2Model ----
(***************************************************************************)
(* Model of the objects API (api/sql/astro_object/astro_object.py):        *)
(*   GET /objects/      ObjectList.get                                     *)
(*   GET /objects/<id>  Object.get                                         *)
(* The store (Object and Classification tables) is read-only; every        *)
(* request is handled synchronously by one handler call.                   *)
(*                                                                         *)
(* Python's None is the empty sequence <<>>; a supplied value v is <<v>>.  *)
(* A range argument (ndet, firstmjd, lastmjd) is the list of its values.   *)
(***************************************************************************)
EXTENDS Integers, Sequences, FiniteSets, TLC

\* Largest number used for ndet, MJD, probability and coordinate values.
MaxVal == 1
\* Largest page number and page size a request asks for.
MaxPage == 2
MaxPageSize == 2

\* astropy: units.arcsec -> units.deg divides by 3600.
ArcsecPerDeg == 3600

None == <<>>
Some(v) == <<v>>
Vals == 0..MaxVal

(***************************************************************************)
(* The store: db_plugins' models.Object and models.Classification.         *)
(***************************************************************************)
OIDs == {"ZTF1", "ZTF2"}
\* Identifiers a client may ask for; "ZTF3" is never stored.
IDs == OIDs \cup {"ZTF3"}

ObjectColumns == {"oid", "ndet", "firstmjd", "lastmjd", "meanra", "meandec"}
ClassificationColumns == {"oid", "classifier_name", "class_name", "probability"}
NumericColumns == {"ndet", "firstmjd", "lastmjd", "meanra", "meandec", "probability"}

\* An Object row: the detection count a and the first observation time b vary
\* independently; the last observation and the mean position follow them.
ObjectRow(o, a, b) ==
    [oid |-> o, ndet |-> a, firstmjd |-> b, lastmjd |-> a + b,
     meanra |-> a, meandec |-> b]

\* Rows the Object table may hold.
ObjectRows ==
    { ObjectRow("ZTF1", a, b) : a \in Vals, b \in Vals }
    \cup { ObjectRow("ZTF2", MaxVal, 0) }

\* Rows the Classification table may hold.
ClassificationRows ==
    { [oid |-> "ZTF1", classifier_name |-> "lc_classifier",
       class_name |-> "SN", probability |-> p] : p \in Vals }
    \cup { [oid |-> "ZTF1", classifier_name |-> "stamp_classifier",
            class_name |-> "AGN", probability |-> MaxVal],
           [oid |-> "ZTF2", classifier_name |-> "lc_classifier",
            class_name |-> "AGN", probability |-> 0] }

\* oid is the primary key of Object.
UniqueOid(objs) == \A x \in objs : \A y \in objs : x.oid = y.oid => x = y
\* (oid, classifier_name) is the primary key of Classification, and oid
\* references a stored Object.
ValidClassifications(objs, clfs) ==
    /\ \A c \in clfs : \E o \in objs : o.oid = c.oid
    /\ \A c \in clfs : \A d \in clfs :
          (c.oid = d.oid /\ c.classifier_name = d.classifier_name) => c = d

VARIABLES
    objects,          \* the Object table
    classifications,  \* the Classification table
    pc,               \* "idle": waiting for a request; "done": a response was produced
    endpoint,         \* "none", "list" (GET /objects/) or "get" (GET /objects/<id>)
    args,             \* the parsed arguments of the request being answered
    filters,          \* _parse_filters' six predicates
    conesearch_args,  \* _convert_conesearch_args' result, bound with params()
    conesearch,       \* _create_conesearch_statement's result
    order_statement,  \* _create_order_statement's result
    query,            \* the rows the executed query returns, in order
    page,             \* the page object paginate() returns
    response          \* [status, body]

vars == <<objects, classifications, pc, endpoint, args, filters, conesearch_args,
          conesearch, order_statement, query, page, response>>

NoArgs == [id |-> None]
NoResponse == [status |-> 0, body |-> None]

(***************************************************************************)
(* Request arguments (the four parsers of create_parsers()).               *)
(***************************************************************************)
Opt(S) == {None} \cup { Some(v) : v \in S }

Classifiers == {"lc_classifier", "stamp_classifier"}
Classes == {"SN", "AGN"}
\* One value (lower bound) or two values (lower and upper bound).
Ranges == { <<l>> : l \in Vals } \cup { <<l, h>> : l \in Vals, h \in Vals }

NoFilter ==
    [classifier |-> None, class |-> None, ndet |-> None, firstmjd |-> None,
     lastmjd |-> None, probability |-> None]
NoCone == [ra |-> None, dec |-> None, radius |-> None]
NoOrder == [order_by |-> None, order_mode |-> None]
DefaultPage == [page |-> 1, page_size |-> MaxPageSize, count |-> TRUE]

\* Filter arguments with at most one argument supplied.
SingleFilters ==
    {NoFilter}
    \cup { [NoFilter EXCEPT !.classifier = Some(c)] : c \in Classifiers }
    \cup { [NoFilter EXCEPT !.class = Some(c)] : c \in Classes }
    \cup { [NoFilter EXCEPT !.probability = Some(p)] : p \in Vals }
    \cup { [NoFilter EXCEPT !.ndet = r] : r \in Ranges }
    \cup { [NoFilter EXCEPT !.firstmjd = r] : r \in Ranges }
    \cup { [NoFilter EXCEPT !.lastmjd = r] : r \in Ranges }

Overlay(x, y) == [k \in DOMAIN x |-> IF y[k] # None THEN y[k] ELSE x[k]]

\* Filter arguments with at most two arguments supplied.
FilterArgs == { Overlay(x, y) : x \in SingleFilters, y \in SingleFilters }

\* ra and dec in degrees, radius in arcseconds (half-degree steps).
ConeArgs ==
    [ra : Opt(Vals), dec : Opt(Vals),
     radius : Opt({ k * (ArcsecPerDeg \div 2) : k \in Vals })]

OrderColumns == {"oid", "ndet", "probability", "bogus"}
OrderArgs == [order_by : Opt(OrderColumns), order_mode : Opt({"ASC", "DESC"})]

PageArgs == [page : 1..MaxPage, page_size : 1..MaxPageSize, count : BOOLEAN]

\* The list requests the model draws from: the filters alone, the cone
\* search alone, and ordering with pagination over a plain or a narrowing filter.
ListRequests ==
    { fa @@ NoCone @@ NoOrder @@ DefaultPage : fa \in FilterArgs }
    \cup { NoFilter @@ ca @@ NoOrder @@ DefaultPage : ca \in ConeArgs }
    \cup { fa @@ NoCone @@ oa @@ pa :
              fa \in {NoFilter, [NoFilter EXCEPT !.classifier = Some("stamp_classifier")]},
              oa \in OrderArgs, pa \in PageArgs }

\* Python truthiness of an argument: None, 0, 0.0 and "" are false.
TruthyNum(x) == x # None /\ x[1] # 0
TruthyStr(x) == x # None /\ x[1] # ""
TruthyList(x) == Len(x) > 0
\* A float held as a fraction <<num, den>>.
TruthyFrac(x) == x # None /\ x[1][1] # 0

(***************************************************************************)
(* SQL expressions and their evaluation.                                   *)
(***************************************************************************)
\* Python's True, accepted by filter() as the constant true.
TruePred == [op |-> "true"]
\* models.<entity>.<col> <op> val
Cmp(op, entity, col, val) == [op |-> op, entity |-> entity, col |-> col, val |-> val]
\* left & right
And(left, right) == [op |-> "and", left |-> left, right |-> right]

\* A row of the joined query: an Object and its Classification, or None.
Row(o, c) == [obj |-> o, clf |-> c]

\* The value of a column in a row; None is SQL NULL (no Classification).
ColumnValue(row, entity, col) ==
    IF entity = "Object" THEN Some(row.obj[col])
    ELSE IF row.clf = None THEN None
    ELSE Some(row.clf[1][col])

\* Whether a WHERE predicate is true of a row (a comparison with NULL is not).
RECURSIVE Eval(_, _)
Eval(p, row) ==
    CASE p.op = "true" -> TRUE
      [] p.op = "and" -> Eval(p.left, row) /\ Eval(p.right, row)
      [] OTHER ->
           LET v == ColumnValue(row, p.entity, p.col)
           IN  /\ v # None
               /\ CASE p.op = "eq" -> v[1] = p.val
                    [] p.op = "ge" -> v[1] >= p.val
                    [] p.op = "le" -> v[1] <= p.val

(***************************************************************************)
(* ObjectList._parse_filters                                               *)
(***************************************************************************)
\* Variant: the upper bound of a two-valued range is never added.
RangeFilterLowerOnly(col, range) ==
    IF TruthyList(range) THEN Cmp("ge", "Object", col, range[1]) ELSE TruePred

\* The predicate of one range argument over an Object column.
RangeFilter(col, range) ==
    IF TruthyList(range)
    THEN LET low == Cmp("ge", "Object", col, range[1])
         IN  IF Len(range) > 1
             THEN And(low, Cmp("le", "Object", col, range[2]))
             ELSE low
    ELSE TruePred

ClassifierFilter(a) ==
    IF TruthyStr(a.classifier)
    THEN Cmp("eq", "Classification", "classifier_name", a.classifier[1])
    ELSE TruePred

ClassFilter(a) ==
    IF TruthyStr(a.class)
    THEN Cmp("eq", "Classification", "class_name", a.class[1])
    ELSE TruePred

ProbabilityFilter(a) ==
    IF TruthyNum(a.probability)
    THEN Cmp("ge", "Classification", "probability", a.probability[1])
    ELSE TruePred

\* classifier, class_, ndet, firstmjd, lastmjd, probability
parse_filters(a) ==
    << ClassifierFilter(a),
       ClassFilter(a),
       RangeFilter("ndet", a.ndet),
       RangeFilter("firstmjd", a.firstmjd),
       RangeFilter("lastmjd", a.lastmjd),
       ProbabilityFilter(a) >>

(***************************************************************************)
(* ObjectList._convert_conesearch_args, _create_conesearch_statement       *)
(***************************************************************************)
RECURSIVE GCD(_, _)
GCD(m, n) == IF n = 0 THEN m ELSE GCD(n, m % n)

\* A non-negative rational number num/den in lowest terms.
Frac(num, den) ==
    LET g == GCD(num, den) IN << num \div g, den \div g >>

\* (radius * units.arcsec).to(units.deg).value
arcsec_to_deg(radius) == Frac(radius, ArcsecPerDeg)

\* The arcsecond value of a number of degrees (the inverse conversion).
deg_to_arcsec(deg) == Frac(deg[1] * ArcsecPerDeg, deg[2])

\* {"ra": ra, "dec": dec, "radius": radius}: the radius is converted only
\* when ra, dec and radius are all truthy.
convert_conesearch_args(a) ==
    [ra |-> a.ra,
     dec |-> a.dec,
     radius |-> IF TruthyNum(a.ra) /\ TruthyNum(a.dec) /\ TruthyNum(a.radius)
                THEN Some(arcsec_to_deg(a.radius[1]))
                ELSE IF a.radius = None THEN None
                ELSE Some(Frac(a.radius[1], 1))]

ConeText == [op |-> "text", sql |-> "q3c_radial_query(meanra, meandec,:ra, :dec, :radius)"]

\* Called with the converted arguments.
create_conesearch_statement(ca) ==
    IF TruthyNum(ca.ra) /\ TruthyNum(ca.dec) /\ TruthyFrac(ca.radius)
    THEN ConeText
    ELSE TruePred

\* The database function the text names: the object lies within radius
\* (degrees) of (ra, dec); small-angle form of the angular distance.
q3c_radial_query(meanra, meandec, ra, dec, radius) ==
    LET dra == meanra - ra
        ddec == meandec - dec
    IN  (dra * dra + ddec * ddec) * radius[2] * radius[2] <= radius[1] * radius[1]

(***************************************************************************)
(* ObjectList._get_objects                                                 *)
(***************************************************************************)
\* Variant: an inner join, which drops Objects without a Classification.
InnerJoin(objs, clfs) ==
    UNION { { Row(o, Some(c)) : c \in { d \in clfs : d.oid = o.oid } } : o \in objs }

\* db.query(Object, Classification).outerjoin(Object.classifications)
OuterJoin(objs, clfs) ==
    UNION { { Row(o, Some(c)) : c \in { d \in clfs : d.oid = o.oid } } : o \in objs }
    \cup { Row(o, None) : o \in { x \in objs : \A d \in clfs : d.oid # x.oid } }

\* .filter(*filters): the conjunction of the predicates passed to it.
Filter(rows, preds) ==
    { r \in rows : \A i \in 1..Len(preds) : Eval(preds[i], r) }

\* The conesearch statement is received and not passed to filter().
get_objects(objs, clfs, fs, cone, cargs) == Filter(OuterJoin(objs, clfs), fs)

(***************************************************************************)
(* ObjectList._create_order_statement                                      *)
(***************************************************************************)
\* query.column_descriptions: the entities of the query, in join order.
column_descriptions == << "Object", "Classification" >>

EntityColumns(model) ==
    IF model = "Object" THEN ObjectColumns ELSE ClassificationColumns

\* getattr(model, name, None)
GetAttr(model, name) ==
    IF name \in EntityColumns(model)
    THEN Some([entity |-> model, attr |-> name])
    ELSE None

\* Variant: the loop has no break, so the last entity with the attribute wins.
RECURSIVE FindAttrNoBreak(_, _, _)
FindAttrNoBreak(cols, i, name) ==
    IF i > Len(cols) THEN None
    ELSE LET rest == FindAttrNoBreak(cols, i + 1, name)
         IN  IF rest # None THEN rest ELSE GetAttr(cols[i], name)

\* The for loop over cols from position i: attr after the loop is the first
\* attribute found, or None when no entity has one of that name.
RECURSIVE FindAttr(_, _, _)
FindAttr(cols, i, name) ==
    IF i > Len(cols) THEN None
    ELSE IF GetAttr(cols[i], name) # None THEN GetAttr(cols[i], name)
    ELSE FindAttr(cols, i + 1, name)

\* attr, attr.asc(), attr.desc()
Ordering(attr, dir) == Some([entity |-> attr.entity, attr |-> attr.attr, dir |-> dir])

\* [raised, statement]: raised when asc()/desc() is called on None.
create_order_statement(cols, a) ==
    IF ~TruthyStr(a.order_by) THEN [raised |-> FALSE, statement |-> None]
    ELSE LET attr == FindAttr(cols, 1, a.order_by[1])
             bare == IF attr # None THEN Ordering(attr[1], "default") ELSE None
         IN  IF ~TruthyStr(a.order_mode)
             THEN [raised |-> FALSE, statement |-> bare]
             ELSE IF a.order_mode[1] \in {"ASC", "DESC"} /\ attr = None
                  THEN [raised |-> TRUE, statement |-> None]
             ELSE IF a.order_mode[1] = "ASC"
                  THEN [raised |-> FALSE, statement |-> Ordering(attr[1], "asc")]
             ELSE IF a.order_mode[1] = "DESC"
                  THEN [raised |-> FALSE, statement |-> Ordering(attr[1], "desc")]
             ELSE [raised |-> FALSE, statement |-> bare]

(***************************************************************************)
(* query.order_by(order_statement), query.paginate(page, page_size, count) *)
(***************************************************************************)
\* The collation order of the strings the store holds.
StringOrder ==
    << "AGN", "SN", "ZTF1", "ZTF2", "lc_classifier", "stamp_classifier" >>
Rank(str) == CHOOSE i \in 1..Len(StringOrder) : StringOrder[i] = str
SortKey(col, v) == IF col \in NumericColumns THEN v ELSE Rank(v)

\* Whether row r may precede row t under the statement; the place of NULL
\* keys is the database's choice.
MayPrecede(r, t, st) ==
    LET kr == ColumnValue(r, st.entity, st.attr)
        kt == ColumnValue(t, st.entity, st.attr)
    IN  \/ kr = None
        \/ kt = None
        \/ IF st.dir = "desc"
           THEN SortKey(st.attr, kr[1]) >= SortKey(st.attr, kt[1])
           ELSE SortKey(st.attr, kr[1]) <= SortKey(st.attr, kt[1])

\* Every sequence holding each row of the set once.
Orderings(rows) ==
    { s \in [1..Cardinality(rows) -> rows] :
         \A i \in DOMAIN s : \A j \in DOMAIN s : s[i] = s[j] => i = j }

\* The results the database may return: any order without a statement,
\* otherwise any order sorted by it.
order_by(rows, statement) ==
    IF statement = None THEN Orderings(rows)
    ELSE { s \in Orderings(rows) :
              \A i \in DOMAIN s : \A j \in DOMAIN s :
                 i < j => MayPrecede(s[i], s[j], statement[1]) }

Min(a, b) == IF a <= b THEN a ELSE b

\* The Pagination object: the slice of the results and its cursors.
paginate(results, pg, per_page, count) ==
    LET total == IF count THEN Some(Len(results)) ELSE None
        pages == IF total = None THEN 0
                 ELSE (total[1] + per_page - 1) \div per_page
        has_next == pg < pages
        has_prev == pg > 1
    IN  [items |-> SubSeq(results, (pg - 1) * per_page + 1,
                          Min(pg * per_page, Len(results))),
         total |-> total,
         page |-> pg,
         has_next |-> has_next,
         next_num |-> IF has_next THEN Some(pg + 1) ELSE None,
         has_prev |-> has_prev,
         prev_num |-> IF has_prev THEN Some(pg - 1) ELSE None]

(***************************************************************************)
(* ObjectList.serialize_items                                              *)
(***************************************************************************)
\* instance.__dict__: the mapped columns and SQLAlchemy's instance state.
InstanceDict(rec, state) ==
    [k \in DOMAIN rec \cup {"_sa_instance_state"} |->
        IF k = "_sa_instance_state" THEN state ELSE rec[k]]
ObjectDict(o) == InstanceDict(o, << "Object", o.oid >>)
ClassificationDict(c) ==
    InstanceDict(c, << "Classification", c.oid, c.classifier_name >>)

\* Variant: {**right, **left}, the left mapping wins on a shared key.
MergeDictsLeftWins(left, right) ==
    [k \in DOMAIN left \cup DOMAIN right |->
        IF k \in DOMAIN left THEN left[k] ELSE right[k]]

\* {**left, **right}
MergeDicts(left, right) ==
    [k \in DOMAIN left \cup DOMAIN right |->
        IF k \in DOMAIN right THEN right[k] ELSE left[k]]

\* {**obj.__dict__, **(clf.__dict__ if clf else {})}
serialize_item(row) ==
    IF row.clf # None
    THEN MergeDicts(ObjectDict(row.obj), ClassificationDict(row.clf[1]))
    ELSE ObjectDict(row.obj)

serialize_items(data) == [i \in 1..Len(data) |-> serialize_item(data[i])]

(***************************************************************************)
(* ObjectList.get                                                          *)
(***************************************************************************)
\* The response built from the page: the payload, or NotFound.
ObjectListResponse(pg) ==
    LET serialized_items == serialize_items(pg.items)
    IN  IF Len(serialized_items) > 0
        THEN [status |-> 200,
              body |-> Some([total |-> pg.total, page |-> pg.page,
                             next |-> pg.next_num, has_next |-> pg.has_next,
                             prev |-> pg.prev_num, has_prev |-> pg.has_prev,
                             items |-> serialized_items])]
        ELSE [status |-> 404, body |-> None]

\* create_result_page followed by the response; an exception raised while
\* the order statement is built ends the request with status 500.
ObjectList_get(a) ==
    LET fs == parse_filters(a)
        cargs == convert_conesearch_args(a)
        cone == create_conesearch_statement(cargs)
        rows == get_objects(objects, classifications, fs, cone, cargs)
        ord == create_order_statement(column_descriptions, a)
    IN  /\ pc = "idle"
        /\ pc' = "done"
        /\ endpoint' = "list"
        /\ args' = a
        /\ filters' = fs
        /\ conesearch_args' = Some(cargs)
        /\ conesearch' = Some(cone)
        /\ IF ord.raised
           THEN /\ order_statement' = None
                /\ query' = <<>>
                /\ page' = None
                /\ response' = [status |-> 500, body |-> None]
           ELSE \E results \in order_by(rows, ord.statement) :
                   LET pg == paginate(results, a.page, a.page_size, a.count)
                   IN  /\ order_statement' = ord.statement
                       /\ query' = results
                       /\ page' = Some(pg)
                       /\ response' = ObjectListResponse(pg)
        /\ UNCHANGED <<objects, classifications>>

(***************************************************************************)
(* Object.get                                                              *)
(***************************************************************************)
\* query.one_or_none(): None, the single row, or MultipleResultsFound.
one_or_none(rows) ==
    IF rows = {} THEN [raised |-> FALSE, result |-> None]
    ELSE IF Cardinality(rows) = 1
         THEN [raised |-> FALSE, result |-> Some(CHOOSE r \in rows : TRUE)]
         ELSE [raised |-> TRUE, result |-> None]

\* Variant: the oid filter is left out of the query.
FilterByOidMissing(objs, id) == objs

\* db.query(models.Object).filter(models.Object.oid == id)
FilterByOid(objs, id) == { o \in objs : o.oid = id }

\* The response of Object.get(id): the row, or NotFound.
ObjectGetResponse(objs, id) ==
    LET result == one_or_none(FilterByOid(objs, id))
    IN  IF result.raised THEN [status |-> 500, body |-> None]
        ELSE IF result.result # None
             THEN [status |-> 200, body |-> result.result]
             ELSE [status |-> 404, body |-> None]

Object_get(id) ==
    /\ pc = "idle"
    /\ pc' = "done"
    /\ endpoint' = "get"
    /\ args' = [id |-> Some(id)]
    /\ response' = ObjectGetResponse(objects, id)
    /\ UNCHANGED <<objects, classifications, filters, conesearch_args, conesearch,
                   order_statement, query, page>>

\* The response has been sent; the server waits for the next request.
Done ==
    /\ pc = "done"
    /\ pc' = "idle"
    /\ endpoint' = "none"
    /\ args' = NoArgs
    /\ filters' = <<>>
    /\ conesearch_args' = None
    /\ conesearch' = None
    /\ order_statement' = None
    /\ query' = <<>>
    /\ page' = None
    /\ response' = NoResponse
    /\ UNCHANGED <<objects, classifications>>

(***************************************************************************)
(* Properties                                                              *)
(***************************************************************************)
ListDone == pc = "done" /\ endpoint = "list"
GetDone == pc = "done" /\ endpoint = "get"
\* The list query was executed (no exception before it).
Executed == ListDone /\ page # None

RowSet(results) == { results[i] : i \in DOMAIN results }
Supplied(x) == x # None
HasClassification(o) == \E c \in classifications : c.oid = o.oid

\* low <= v, and v <= high when the range has an upper bound.
InRange(v, range) ==
    v >= range[1] /\ (Len(range) > 1 => v <= range[2])

\* The six filter predicates as stated: each is the comparison whenever its
\* argument is supplied, and true when it is absent.
StatedPredicates(a, r) ==
    /\ Supplied(a.classifier) =>
          (r.clf # None /\ r.clf[1].classifier_name = a.classifier[1])
    /\ Supplied(a.class) =>
          (r.clf # None /\ r.clf[1].class_name = a.class[1])
    /\ Supplied(a.probability) =>
          (r.clf # None /\ r.clf[1].probability >= a.probability[1])
    /\ Supplied(a.ndet) => InRange(r.obj.ndet, a.ndet)
    /\ Supplied(a.firstmjd) => InRange(r.obj.firstmjd, a.firstmjd)
    /\ Supplied(a.lastmjd) => InRange(r.obj.lastmjd, a.lastmjd)

AllConeSupplied(a) == Supplied(a.ra) /\ Supplied(a.dec) /\ Supplied(a.radius)

\* C1: the rows of an executed list query are restricted by
\* q3c_radial_query(meanra, meandec, ra, dec, radius) exactly when ra, dec
\* and radius were all supplied, and by nothing more than the filters when
\* one of them is missing.
C1_ConeSearchAppliedIffAllPresent ==
    Executed =>
       LET base == Filter(OuterJoin(objects, classifications), filters)
       IN  RowSet(query) =
              IF AllConeSupplied(args)
              THEN { r \in base :
                        q3c_radial_query(r.obj.meanra, r.obj.meandec,
                                         args.ra[1], args.dec[1],
                                         arcsec_to_deg(args.radius[1])) }
              ELSE base

KnownColumn(name) == name \in ObjectColumns \cup ClassificationColumns

\* C2: a list request whose order_by names no attribute of Object or
\* Classification completes with 200 or 404 and no ordering, whatever
\* order_mode is.
C2_UnknownOrderColumnNeverFails ==
    (ListDone /\ Supplied(args.order_by) /\ ~KnownColumn(args.order_by[1])) =>
       /\ response.status \in {200, 404}
       /\ order_statement = None

\* C3: GET /objects/<id> answers 200 with the Object whose oid is id exactly
\* when the store holds one, and 404 otherwise; a 200 payload never has
\* another oid.
C3_GetReturnsObjectIffStored ==
    GetDone =>
       LET id == args.id[1]
       IN  /\ response.status \in {200, 404}
           /\ response.status = 200 <=> (\E o \in objects : o.oid = id)
           /\ response.status = 200 =>
                 /\ response.body # None
                 /\ response.body[1] \in objects
                 /\ response.body[1].oid = id
           /\ response.status = 404 => response.body = None

\* C3 witness: a stored Object was returned while the store also holds an
\* Object with another oid.
C3_Witness ==
    /\ GetDone
    /\ response.status = 200
    /\ \E o \in objects : o.oid # args.id[1]

\* C4: GET /objects/ answers 404 exactly when the requested page has no
\* items and 200 otherwise; a 200 payload has a non-empty items list and the
\* page object's total, page, next, has_next, prev and has_prev.
C4_ListStatusFollowsPage ==
    ListDone =>
       /\ response.status \in {200, 404}
       /\ page # None
       /\ response.status = 404 <=> page[1].items = <<>>
       /\ response.status = 200 =>
             /\ Len(response.body[1].items) > 0
             /\ response.body[1].total = page[1].total
             /\ response.body[1].page = page[1].page
             /\ response.body[1].next = page[1].next_num
             /\ response.body[1].has_next = page[1].has_next
             /\ response.body[1].prev = page[1].prev_num
             /\ response.body[1].has_prev = page[1].has_prev

RangeArguments ==
    { <<3, "ndet">>, <<4, "firstmjd">>, <<5, "lastmjd">> }

\* C5: for ndet, firstmjd and lastmjd, a range [low, high] admits exactly
\* the rows with low <= field <= high and a range [low] exactly the rows
\* with field >= low, for every low and high including 0; the executed
\* query returns no row outside a supplied range.
C5_RangeFilterInclusive ==
    ListDone =>
       \A ra \in RangeArguments :
          LET range == args[ra[2]]
          IN  Supplied(range) =>
                 /\ \A o \in ObjectRows :
                       Eval(filters[ra[1]], Row(o, None))
                          <=> InRange(o[ra[2]], range)
                 /\ \A r \in RowSet(query) : InRange(r.obj[ra[2]], range)

\* C5 witness: a two-valued ndet range with low = 0 was applied to a store
\* holding an Object above the upper bound and returned an Object within it.
C5_Witness ==
    /\ Executed
    /\ Len(args.ndet) = 2
    /\ args.ndet[1] = 0
    /\ \E o \in objects : o.ndet > args.ndet[2]
    /\ \E r \in RowSet(query) : r.obj.ndet = args.ndet[2]

\* C6: the rows of an executed list query are exactly the outer-join pairs
\* satisfying the six stated predicates, each the comparison whenever its
\* argument is supplied (0 and 0.0 included) and true when it is absent.
C6_RowsSatisfyStatedPredicates ==
    Executed =>
       RowSet(query) =
          { r \in OuterJoin(objects, classifications) : StatedPredicates(args, r) }

\* C7: an Object without Classification that satisfies every supplied
\* filter predicate is in the executed query exactly once, as the pair
\* (Object, None), and wherever that pair is on the page the response item
\* at its place holds the Object's fields only.
C7_UnclassifiedObjectRetained ==
    Executed =>
       \A o \in objects :
          (~HasClassification(o) /\ StatedPredicates(args, Row(o, None))) =>
             /\ Cardinality({ i \in DOMAIN query : query[i].obj = o }) = 1
             /\ Row(o, None) \in RowSet(query)
             /\ \A i \in DOMAIN page[1].items :
                   page[1].items[i] = Row(o, None) =>
                      /\ response.status = 200
                      /\ response.body[1].items[i] = ObjectDict(o)

\* C7 witness: an unclassified Object was returned on the page of a store
\* that also holds a classified Object, with a range filter supplied.
C7_Witness ==
    /\ Executed
    /\ Supplied(args.ndet)
    /\ \E o \in objects : HasClassification(o)
    /\ \E i \in DOMAIN page[1].items :
          /\ page[1].items[i].clf = None
          /\ response.body[1].items[i] = ObjectDict(page[1].items[i].obj)

FracLess(x, y) == x[1] * y[2] < y[1] * x[2]

\* C8: whenever ra, dec and radius are all supplied (0 included), the radius
\* bound to the query is radius / 3600, converting it back gives the
\* supplied arcseconds, ra and dec are bound unchanged, and the conversion
\* is strictly monotonic.
C8_RadiusConvertedWhenAllSupplied ==
    (ListDone /\ AllConeSupplied(args)) =>
       /\ conesearch_args[1].radius = Some(arcsec_to_deg(args.radius[1]))
       /\ deg_to_arcsec(conesearch_args[1].radius[1]) = Frac(args.radius[1], 1)
       /\ conesearch_args[1].ra = args.ra
       /\ conesearch_args[1].dec = args.dec
       /\ \A r \in 0..(args.radius[1] - 1) :
             FracLess(arcsec_to_deg(r), conesearch_args[1].radius[1])

ModeDirection(mode) ==
    IF mode = None THEN "default"
    ELSE IF mode[1] = "ASC" THEN "asc" ELSE "desc"

\* C9: when order_by names an attribute of Object or Classification the
\* order statement is that attribute of the first entity in join order
\* having it, ascending for ASC, descending for DESC and bare when
\* order_mode is absent; when order_by is absent there is no ordering.
C9_OrderStatementResolved ==
    ListDone =>
       /\ ~Supplied(args.order_by) => (Executed /\ order_statement = None)
       /\ (Supplied(args.order_by) /\ KnownColumn(args.order_by[1])) =>
             /\ Executed
             /\ order_statement =
                   Some([entity |-> IF args.order_by[1] \in ObjectColumns
                                    THEN "Object" ELSE "Classification",
                         attr |-> args.order_by[1],
                         dir |-> ModeDirection(args.order_mode)])

\* C9 witness: a descending order by oid, an attribute of both entities,
\* resolved to Object's.
C9_Witness ==
    /\ ListDone
    /\ args.order_by = Some("oid")
    /\ args.order_mode = Some("DESC")
    /\ order_statement = Some([entity |-> "Object", attr |-> "oid", dir |-> "desc"])
    /\ Len(query) > 1

\* C10: the response holds one item per pair of the page, in order; an
\* item's keys are the union of the Object's and the Classification's,
\* every key of the Classification carries the Classification's value, the
\* others the Object's; without Classification the item is the Object's
\* fields.
C10_ItemsOverlayClassification ==
    (Executed /\ response.status = 200) =>
       LET items == response.body[1].items
           data == page[1].items
       IN  /\ Len(items) = Len(data)
           /\ \A i \in DOMAIN data :
                 LET od == ObjectDict(data[i].obj)
                 IN  IF data[i].clf = None THEN items[i] = od
                     ELSE LET cd == ClassificationDict(data[i].clf[1])
                          IN  /\ DOMAIN items[i] = DOMAIN od \cup DOMAIN cd
                              /\ \A k \in DOMAIN cd : items[i][k] = cd[k]
                              /\ \A k \in DOMAIN od \ DOMAIN cd :
                                    items[i][k] = od[k]

\* C10 witness: a page of two pairs, the first with a Classification whose
\* instance state replaced the Object's, the second without.
C10_Witness ==
    /\ Executed
    /\ response.status = 200
    /\ Len(page[1].items) = 2
    /\ page[1].items[1].clf # None
    /\ page[1].items[2].clf = None
    /\ response.body[1].items[1]["_sa_instance_state"][1] = "Classification"
    /\ response.body[1].items[2]["_sa_instance_state"][1] = "Object"

Init ==
    /\ objects \in { s \in SUBSET ObjectRows : UniqueOid(s) }
    /\ classifications \in
          { c \in SUBSET ClassificationRows : ValidClassifications(objects, c) }
    /\ pc = "idle"
    /\ endpoint = "none"
    /\ args = NoArgs
    /\ filters = <<>>
    /\ conesearch_args = None
    /\ conesearch = None
    /\ order_statement = None
    /\ query = <<>>
    /\ page = None
    /\ response = NoResponse

Next ==
    \/ \E a \in ListRequests : ObjectList_get(a)
    \/ \E id \in IDs : Object_get(id)
    \/ Done

Spec == Init /\ [][Next]_vars
====
